---- MODULE Spec2Model ----
(***************************************************************************)
(* Model of deepchem/scripts/modeler.py: the command handlers              *)
(* (create_model and the four single-stage wrappers), parameter            *)
(* extraction and directory materialization.  The four collaborators       *)
(* (featurize_inputs, train_test_split, fit_model, eval_trained_model) are *)
(* external: a call is recorded with its arguments and either returns or   *)
(* raises.  The file system is the directory skeleton the handlers touch.  *)
(***************************************************************************)
EXTENDS Integers, Sequences, FiniteSets, TLC

VARIABLES
  args,        \* the argparse Namespace handed to the handler
  pc,          \* position of the handler
  err,         \* exception type that ended the run, "" if none
  calls,       \* collaborator invocations of this run, in order
  fs,          \* [dirs, files]: normalized paths existing on disk
  layout,      \* record of this run's ensure_exists call
  run,         \* number of the current invocation
  prevSkips,   \* history: skip flags of the previous invocation
  prevCalls,   \* history: collaborator invocations of the previous run
  prevLayout   \* history: ensure_exists record of the previous run

vars == <<args, pc, err, calls, fs, layout, run, prevSkips, prevCalls, prevLayout>>

(* ------------------------------ bounds --------------------------------- *)
MaxFailAt == 3
MaxRuns == 2
MaxDropped == 1

(* --------------------------- option names ------------------------------ *)
params ==
  {"nb_hidden", "learning_rate", "dropout", "nb_epoch", "decay", "batch_size",
   "loss_function", "activation", "momentum", "nesterov"}

SkipFlags == {"skip_featurization", "skip_train_test_split", "skip_fit", "skip_eval"}

FeaturizeGroup ==
  {"input_files", "user_specified_features", "tasks", "split_field",
   "smiles_field", "id_field", "threshold", "feature_dir"}

TransformsGroup ==
  {"input_transforms", "output_transforms", "mode", "feature_types",
   "splittype", "weight_positives"}

ModelGroup == {"model"} \cup params

FeaturizeCommand == FeaturizeGroup \cup {"func"}
TrainTestCommand == TransformsGroup \cup {"paths", "data_dir", "func"}
FitCommand == {"data_dir", "model_dir", "func"} \cup ModelGroup
EvalCommand == {"saved_model", "saved_data", "csv_out", "stats_out", "func"}
ModelCommand ==
  SkipFlags \cup {"base_dir", "func"} \cup FeaturizeGroup \cup TransformsGroup
    \cup ModelGroup

Handlers ==
  {"featurize_inputs_wrapper", "train_test_split_wrapper", "fit_model_wrapper",
   "eval_trained_model_wrapper", "create_model"}

ParserKeys(h) ==
  CASE h = "featurize_inputs_wrapper" -> FeaturizeCommand
    [] h = "train_test_split_wrapper" -> TrainTestCommand
    [] h = "fit_model_wrapper" -> FitCommand
    [] h = "eval_trained_model_wrapper" -> EvalCommand
    [] h = "create_model" -> ModelCommand

(* ------------------------------ paths ---------------------------------- *)
\* A path is a sequence of symbols: the characters "a" and "/", and the
\* fixed names of the layout, each taken as one symbol.
PathChars == {"a", "/"}
None == <<"None">>

Join(a, b) ==
  IF b # <<>> /\ b[1] = "/" THEN b
  ELSE IF a = <<>> \/ a[Len(a)] = "/" THEN a \o b
  ELSE a \o <<"/">> \o b

RECURSIVE SplitPath(_, _, _)
SplitPath(p, cur, acc) ==
  IF p = <<>> THEN (IF cur = <<>> THEN acc ELSE Append(acc, cur))
  ELSE IF Head(p) = "/"
       THEN SplitPath(Tail(p), <<>>, IF cur = <<>> THEN acc ELSE Append(acc, cur))
       ELSE SplitPath(Tail(p), Append(cur, Head(p)), acc)

\* The directory entry a path string resolves to.
Norm(p) == [abs |-> p # <<>> /\ p[1] = "/", comps |-> SplitPath(p, <<>>, <<>>)]

Exists(p, f) ==
  /\ p # <<>>
  /\ LET n == Norm(p)
     IN \/ n.comps = <<>>
        \/ n \in f.dirs
        \/ n \in f.files /\ p[Len(p)] # "/"

Dec(b) == IF b < 0 THEN b ELSE b - 1

\* mkdir of each missing component of n from the i-th on; budget is the
\* number of mkdir system calls that succeed before the environment refuses
\* one (negative: none is refused).
RECURSIVE MakedirsFrom(_, _, _, _)
MakedirsFrom(n, i, f, budget) ==
  IF i > Len(n.comps) THEN [fs |-> f, err |-> ""]
  ELSE LET pre == [abs |-> n.abs, comps |-> SubSeq(n.comps, 1, i)]
           last == i = Len(n.comps)
       IN IF pre \in f.files
          THEN [fs |-> f, err |-> IF last THEN "FileExistsError" ELSE "NotADirectoryError"]
          ELSE IF pre \in f.dirs
          THEN IF last THEN [fs |-> f, err |-> "FileExistsError"]
               ELSE MakedirsFrom(n, i + 1, f, budget)
          ELSE IF budget = 0 THEN [fs |-> f, err |-> "PermissionError"]
          ELSE MakedirsFrom(n, i + 1, [f EXCEPT !.dirs = @ \cup {pre}], Dec(budget))

Makedirs(p, f, budget) ==
  IF p = <<>> THEN [fs |-> f, err |-> "FileNotFoundError"]
  ELSE IF Norm(p).comps = <<>> THEN [fs |-> f, err |-> "FileExistsError"]
  ELSE MakedirsFrom(Norm(p), 1, f, budget)

\* Number of directories a call created (to charge the budget).
Created(f, g) == Cardinality(g.dirs \ f.dirs)

Charge(budget, n) == IF budget < 0 THEN budget ELSE budget - n

RECURSIVE ensure_exists_nocheck(_, _, _)
ensure_exists_nocheck(dirs, f, budget) ==
  IF dirs = <<>> THEN [fs |-> f, err |-> "", errPath |-> <<>>]
  ELSE LET r == Makedirs(Head(dirs), f, budget)
       IN IF r.err # "" THEN [fs |-> r.fs, err |-> r.err, errPath |-> Head(dirs)]
          ELSE ensure_exists_nocheck(Tail(dirs), r.fs, Charge(budget, Created(f, r.fs)))

RECURSIVE ensure_exists(_, _, _)
ensure_exists(dirs, f, budget) ==
  IF dirs = <<>> THEN [fs |-> f, err |-> "", errPath |-> <<>>]
  ELSE IF Exists(Head(dirs), f) THEN ensure_exists(Tail(dirs), f, budget)
  ELSE LET r == Makedirs(Head(dirs), f, budget)
       IN IF r.err # "" THEN [fs |-> r.fs, err |-> r.err, errPath |-> Head(dirs)]
          ELSE ensure_exists(Tail(dirs), r.fs, Charge(budget, Created(f, r.fs)))

(* ------------------------- create_model layout ------------------------- *)
BaseDir(ns) == ns["base_dir"]
FeatureDir(ns) == Join(BaseDir(ns), <<"features">>)
DataDir(ns) == Join(BaseDir(ns), <<"data">>)
ModelDir(ns) == Join(BaseDir(ns), <<"model">>)
TrainDir(ns) == Join(DataDir(ns), <<"train">>)
TestDir(ns) == Join(DataDir(ns), <<"test">>)
CsvOutTrain(ns) == Join(DataDir(ns), <<"train.csv">>)
StatsOutTrain(ns) == Join(DataDir(ns), <<"train-stats.txt">>)
CsvOutTest(ns) == Join(DataDir(ns), <<"test.csv">>)
StatsOutTest(ns) == Join(DataDir(ns), <<"test-stats.txt">>)

LayoutDirsNoModel(ns) == <<BaseDir(ns), FeatureDir(ns), DataDir(ns)>>

\* The list create_model hands to ensure_exists.
LayoutDirs(ns) == <<BaseDir(ns), FeatureDir(ns), DataDir(ns), ModelDir(ns)>>

PathsFromOption(ns) == <<ns["feature_dir"]>>

\* paths = [feature_dir]
Paths(ns) == <<FeatureDir(ns)>>

(* ------------------------ parameter extraction ------------------------- *)
extract_model_params_lenient(ns) ==
  [err |-> "", val |-> [p \in params \cap DOMAIN ns |-> ns[p]]]

\* {param : getattr(args, param) for param in params}; getattr raises
\* AttributeError on a name the namespace lacks.
extract_model_params(ns) ==
  IF params \subseteq DOMAIN ns
  THEN [err |-> "", val |-> [p \in params |-> ns[p]]]
  ELSE [err |-> "AttributeError", val |-> <<>>]

(* --------------------------- stage gating ------------------------------ *)
RunFeaturizeAlways(ns) == TRUE
RunFeaturize(ns) == ~ns["skip_featurization"]
RunSplit(ns) == ~ns["skip_train_test_split"]
RunFit(ns) == ~ns["skip_fit"]
RunEvalTrain(ns) == ~ns["skip_fit"]
RunEvalTestOnSkipEval(ns) == ~ns["skip_eval"]
RunEvalTest(ns) == ~ns["skip_fit"]

\* Statement order of create_model.
AfterStageFitFirst(s) ==
  CASE s = "featurize" -> "fit"
    [] s = "fit" -> "split"
    [] s = "split" -> "eval_train"
    [] s = "eval_train" -> "eval_test"
    [] s = "eval_test" -> "done"

AfterStage(s) ==
  CASE s = "featurize" -> "split"
    [] s = "split" -> "fit"
    [] s = "fit" -> "eval_train"
    [] s = "eval_train" -> "eval_test"
    [] s = "eval_test" -> "done"

\* A collaborator that raises ends the handler: no try/except anywhere.
OnReturnSwallow(ok, next) == next
OnReturn(ok, next) == IF ok THEN next ELSE "failed"

Call(fn, argv, split, ok) == [fn |-> fn, argv |-> argv, split |-> split, ok |-> ok]

FeaturizeArgv(ns, dir) ==
  <<dir, ns["input_files"], ns["user_specified_features"], ns["tasks"],
    ns["smiles_field"], ns["split_field"], ns["id_field"], ns["threshold"]>>

SplitArgv(ns, paths, dir) ==
  <<paths, ns["input_transforms"], ns["output_transforms"], ns["feature_types"],
    ns["splittype"], ns["mode"], dir>>

FeaturizeNeeds ==
  {"input_files", "user_specified_features", "tasks", "smiles_field",
   "split_field", "id_field", "threshold"}

SplitNeeds ==
  {"input_transforms", "output_transforms", "feature_types", "splittype", "mode"}

Budgets == -1 .. MaxFailAt

EmptyFs == [dirs |-> {}, files |-> {}]

NoLayout ==
  [done |-> FALSE, dirs |-> <<>>, pre |-> EmptyFs, post |-> EmptyFs,
   err |-> "", errPath |-> <<>>]

SkipSet(ns) == {f \in SkipFlags \cap DOMAIN ns : ns[f]}

Raise(e) == pc' = "failed" /\ err' = e

\* The invocation of one collaborator: it returns or it raises.
Invoke(fn, argv, split, next) ==
  \E ok \in BOOLEAN :
    /\ calls' = Append(calls, Call(fn, argv, split, ok))
    /\ pc' = OnReturn(ok, next)
    /\ err' = IF ok THEN "" ELSE "StageExecutionError"

History == <<run, prevSkips, prevCalls, prevLayout>>

(* ---------------------------- create_model ----------------------------- *)
CreateModelLayout ==
  /\ pc = "main" /\ args["func"] = "create_model"
  /\ UNCHANGED <<args, calls, History>>
  /\ IF "base_dir" \notin DOMAIN args
     THEN Raise("AttributeError") /\ UNCHANGED <<fs, layout>>
     ELSE \E budget \in Budgets :
            LET r == ensure_exists(LayoutDirs(args), fs, budget)
            IN /\ fs' = r.fs
               /\ layout' = [done |-> TRUE, dirs |-> LayoutDirs(args), pre |-> fs,
                             post |-> r.fs, err |-> r.err, errPath |-> r.errPath]
               /\ IF r.err # "" THEN Raise(r.err)
                  ELSE IF "model" \notin DOMAIN args THEN Raise("AttributeError")
                  ELSE pc' = "featurize" /\ err' = ""

CreateModelFeaturize ==
  /\ pc = "featurize"
  /\ UNCHANGED <<args, fs, layout, History>>
  /\ IF RunFeaturize(args)
     THEN IF FeaturizeNeeds \subseteq DOMAIN args
          THEN Invoke("featurize_inputs", FeaturizeArgv(args, FeatureDir(args)), "-",
                      AfterStage("featurize"))
          ELSE Raise("AttributeError") /\ UNCHANGED calls
     ELSE pc' = AfterStage("featurize") /\ UNCHANGED <<err, calls>>

CreateModelSplit ==
  /\ pc = "split"
  /\ UNCHANGED <<args, fs, layout, History>>
  /\ IF RunSplit(args)
     THEN IF SplitNeeds \subseteq DOMAIN args
          THEN Invoke("train_test_split", SplitArgv(args, Paths(args), DataDir(args)), "-",
                      AfterStage("split"))
          ELSE Raise("AttributeError") /\ UNCHANGED calls
     ELSE pc' = AfterStage("split") /\ UNCHANGED <<err, calls>>

CreateModelFit ==
  /\ pc = "fit"
  /\ UNCHANGED <<args, fs, layout, History>>
  /\ IF RunFit(args)
     THEN LET model_params == extract_model_params(args)
          IN IF model_params.err = ""
             THEN Invoke("fit_model",
                         <<args["model"], model_params.val, ModelDir(args), DataDir(args)>>,
                         "-", AfterStage("fit"))
             ELSE Raise(model_params.err) /\ UNCHANGED calls
     ELSE pc' = AfterStage("fit") /\ UNCHANGED <<err, calls>>

CreateModelEvalTrain ==
  /\ pc = "eval_train"
  /\ UNCHANGED <<args, fs, layout, History>>
  /\ IF RunEvalTrain(args)
     THEN IF "output_transforms" \in DOMAIN args
          THEN Invoke("eval_trained_model",
                      <<args["model"], ModelDir(args), TrainDir(args), CsvOutTrain(args),
                        StatsOutTrain(args), args["output_transforms"]>>,
                      "train", AfterStage("eval_train"))
          ELSE Raise("AttributeError") /\ UNCHANGED calls
     ELSE pc' = AfterStage("eval_train") /\ UNCHANGED <<err, calls>>

CreateModelEvalTest ==
  /\ pc = "eval_test"
  /\ UNCHANGED <<args, fs, layout, History>>
  /\ IF RunEvalTest(args)
     THEN IF "output_transforms" \in DOMAIN args
          THEN Invoke("eval_trained_model",
                      <<args["model"], ModelDir(args), TestDir(args), CsvOutTest(args),
                        StatsOutTest(args), args["output_transforms"]>>,
                      "test", AfterStage("eval_test"))
          ELSE Raise("AttributeError") /\ UNCHANGED calls
     ELSE pc' = AfterStage("eval_test") /\ UNCHANGED <<err, calls>>

(* ----------------------- single-stage wrappers ------------------------- *)
featurize_inputs_wrapper ==
  /\ pc = "main" /\ args["func"] = "featurize_inputs_wrapper"
  /\ UNCHANGED <<args, layout, History>>
  /\ IF "feature_dir" \notin DOMAIN args
     THEN Raise("AttributeError") /\ UNCHANGED <<fs, calls>>
     ELSE IF args["feature_dir"] = None
     THEN Raise("TypeError") /\ UNCHANGED <<fs, calls>>
     ELSE \E budget \in Budgets :
            LET r == IF Exists(args["feature_dir"], fs)
                     THEN [fs |-> fs, err |-> ""]
                     ELSE Makedirs(args["feature_dir"], fs, budget)
            IN /\ fs' = r.fs
               /\ IF r.err # "" THEN Raise(r.err) /\ UNCHANGED calls
                  ELSE IF FeaturizeNeeds \subseteq DOMAIN args
                  THEN Invoke("featurize_inputs",
                              FeaturizeArgv(args, args["feature_dir"]), "-", "done")
                  ELSE Raise("AttributeError") /\ UNCHANGED calls

train_test_split_wrapper ==
  /\ pc = "main" /\ args["func"] = "train_test_split_wrapper"
  /\ UNCHANGED <<args, fs, layout, History>>
  /\ IF SplitNeeds \cup {"paths", "data_dir"} \subseteq DOMAIN args
     THEN Invoke("train_test_split", SplitArgv(args, args["paths"], args["data_dir"]),
                 "-", "done")
     ELSE Raise("AttributeError") /\ UNCHANGED calls

fit_model_wrapper ==
  /\ pc = "main" /\ args["func"] = "fit_model_wrapper"
  /\ UNCHANGED <<args, fs, layout, History>>
  /\ LET model_params == extract_model_params(args)
     IN IF model_params.err # ""
        THEN Raise(model_params.err) /\ UNCHANGED calls
        ELSE IF {"model_name", "model_dir", "data_dir"} \subseteq DOMAIN args
        THEN Invoke("fit_model",
                    <<args["model_name"], model_params.val, args["model_dir"],
                      args["data_dir"]>>, "-", "done")
        ELSE Raise("AttributeError") /\ UNCHANGED calls

eval_trained_model_wrapper ==
  /\ pc = "main" /\ args["func"] = "eval_trained_model_wrapper"
  /\ UNCHANGED <<args, fs, layout, History>>
  /\ IF {"model", "model_dir", "data_dir", "csv_out", "stats_out", "output_transforms"}
          \subseteq DOMAIN args
     THEN Invoke("eval_trained_model",
                 <<args["model"], args["model_dir"], args["data_dir"], args["csv_out"],
                   args["stats_out"], args["output_transforms"]>>, "test", "done")
     ELSE Raise("AttributeError") /\ UNCHANGED calls

(* -------------------------------- main --------------------------------- *)
\* The command lines of a further invocation on the same file system: the
\* same options, or the same with one skip flag toggled.
Reruns(ns) ==
  {ns} \cup {[ns EXCEPT ![f] = ~@] : f \in SkipFlags \cap DOMAIN ns}

\* main() is invoked again after a run has completed.
Restart ==
  /\ pc = "done"
  /\ run < MaxRuns
  /\ \E a \in Reruns(args) : args' = a
  /\ pc' = "main" /\ err' = "" /\ calls' = <<>>
  /\ layout' = NoLayout
  /\ run' = run + 1
  /\ prevSkips' = SkipSet(args)
  /\ prevCalls' = [pc |-> pc, calls |-> calls]
  /\ prevLayout' = layout
  /\ UNCHANGED fs

Variants == {"default", "given"}

\* The Namespace parse_args builds for the subcommand whose handler is h.
Namespace(h, keys, v, base, skips) ==
  [k \in keys |->
     CASE k \in SkipFlags -> k \in skips
       [] k = "func" -> h
       [] k = "base_dir" -> base
       [] k = "feature_dir" -> IF v = "given" THEN <<"a">> ELSE None
       [] k = "paths" -> <<<<"a">>>>
       [] OTHER -> <<k, v>>]

\* Values of --base-dir: "", "a", "a/", "/" and "a/a".
BaseDirs == {<<>>, <<"a">>, <<"a", "/">>, <<"/">>, <<"a", "/", "a">>}

PrefixesOf(n) == {[abs |-> n.abs, comps |-> SubSeq(n.comps, 1, i)] : i \in 1 .. Len(n.comps)}

\* The directory entries the handler of ns touches.
Touched(ns) ==
  IF ns["func"] = "create_model"
  THEN UNION {PrefixesOf(Norm(LayoutDirs(ns)[i])) : i \in DOMAIN LayoutDirs(ns)}
  ELSE IF ns["func"] = "featurize_inputs_wrapper" /\ ns["feature_dir"] # None
  THEN PrefixesOf(Norm(ns["feature_dir"]))
  ELSE {}

\* File systems before the first run: some of the touched entries exist as
\* directories, at most one as a regular file, parents always directories.
FsChoices(ns) ==
  {f \in [dirs : SUBSET Touched(ns), files : SUBSET Touched(ns)] :
     /\ f.dirs \cap f.files = {}
     /\ Cardinality(f.files) <= 1
     /\ \A n \in f.dirs \cup f.files : PrefixesOf(n) \ {n} \subseteq f.dirs}

InitRest ==
  /\ pc = "main" /\ err = "" /\ calls = <<>>
  /\ layout = NoLayout
  /\ run = 1
  /\ prevSkips = {}
  /\ prevCalls = [pc |-> "none", calls |-> <<>>]
  /\ prevLayout = NoLayout

\* A command line parsed by parse_args.
Init ==
  /\ \E h \in Handlers, v \in Variants, base \in BaseDirs, skips \in SUBSET SkipFlags :
       args = Namespace(h, ParserKeys(h), v, base, skips)
  /\ fs \in FsChoices(args)
  /\ InitRest

\* A handler called directly with a Namespace that lacks some hyperparameters.
InitApi ==
  /\ \E h \in Handlers, skips \in SUBSET SkipFlags, dropped \in SUBSET params :
       /\ Cardinality(dropped) <= MaxDropped
       /\ args = Namespace(h, ParserKeys(h) \ dropped, "given", <<"a">>, skips)
  /\ fs = EmptyFs
  /\ InitRest

Next ==
  \/ CreateModelLayout
  \/ CreateModelFeaturize
  \/ CreateModelSplit
  \/ CreateModelFit
  \/ CreateModelEvalTrain
  \/ CreateModelEvalTest
  \/ featurize_inputs_wrapper
  \/ train_test_split_wrapper
  \/ fit_model_wrapper
  \/ eval_trained_model_wrapper
  \/ Restart

Spec == Init /\ [][Next]_vars

SpecApi == InitApi /\ [][Next]_vars

(* ============================ properties =============================== *)
IsModelRun == args["func"] = "create_model"

\* Position of a recorded invocation in the order Featurize, Split, Fit,
\* Eval(split=train), Eval(split=test).
StageIdx(c) ==
  CASE c.fn = "featurize_inputs" -> 1
    [] c.fn = "train_test_split" -> 2
    [] c.fn = "fit_model" -> 3
    [] c.fn = "eval_trained_model" /\ c.split = "train" -> 4
    [] c.fn = "eval_trained_model" /\ c.split = "test" -> 5

Stages(cs) == [i \in 1 .. Len(cs) |-> StageIdx(cs[i])]

Invoked(k) == \E i \in 1 .. Len(calls) : StageIdx(calls[i]) = k

AfterLayout == pc \in {"featurize", "split", "fit", "eval_train", "eval_test", "done"}

\* C1: in the model command the invocations form a subsequence of Featurize,
\* Split, Fit, Eval(train), Eval(test), each at most once; a completed run
\* with no skip flag has all five in that order; Fit is never invoked unless
\* Split has returned or was skipped.
C1_StageOrder ==
  IsModelRun =>
    /\ \A i, j \in 1 .. Len(calls) : i < j => StageIdx(calls[i]) < StageIdx(calls[j])
    /\ (pc = "done" /\ SkipSet(args) = {}) => Stages(calls) = <<1, 2, 3, 4, 5>>
    /\ \A i \in 1 .. Len(calls) :
         StageIdx(calls[i]) = 3 =>
           \/ args["skip_train_test_split"]
           \/ \E j \in 1 .. i - 1 : StageIdx(calls[j]) = 2 /\ calls[j].ok

C1_Witness ==
  /\ IsModelRun /\ pc = "done" /\ SkipSet(args) = {}
  /\ Stages(calls) = <<1, 2, 3, 4, 5>>

C3_SkipEvalHonoured ==
  (IsModelRun /\ args["skip_eval"]) => ~Invoked(4) /\ ~Invoked(5)

\* C4: skip_featurization, skip_train_test_split and skip_fit each decide
\* their own stage: in a completed run Featurize, Split, Fit are invoked iff
\* their flag is unset, and a stage whose flag is set is never invoked; a
\* completed run with only skip_featurization set makes exactly the
\* invocations of the completed run without the flag, minus Featurize.
C4_OwnStageOnly ==
  IsModelRun =>
    /\ args["skip_featurization"] => ~Invoked(1)
    /\ args["skip_train_test_split"] => ~Invoked(2)
    /\ args["skip_fit"] => ~Invoked(3)
    /\ pc = "done" =>
         /\ Invoked(1) <=> ~args["skip_featurization"]
         /\ Invoked(2) <=> ~args["skip_train_test_split"]
         /\ Invoked(3) <=> ~args["skip_fit"]
    /\ (/\ pc = "done" /\ SkipSet(args) = {"skip_featurization"}
        /\ prevCalls.pc = "done" /\ prevSkips = {})
       => /\ Stages(prevCalls.calls) = <<1, 2, 3, 4, 5>>
          /\ Stages(calls) = <<2, 3, 4, 5>>
          /\ calls = Tail(prevCalls.calls)

C4_Witness ==
  /\ IsModelRun /\ pc = "done" /\ SkipSet(args) = {"skip_featurization"}
  /\ prevCalls.pc = "done" /\ prevSkips = {}
  /\ Len(calls) = 4

\* C5: in the model command a failure ends the run at once: a failed
\* invocation is the last one of the run and leaves the handler failed, a
\* failed directory creation leaves it failed with no invocation at all, no
\* stage is invoked twice, and a completed run has no failure in it.
C5_FailureHalts ==
  IsModelRun =>
    /\ \A i \in 1 .. Len(calls) : ~calls[i].ok => i = Len(calls) /\ pc = "failed"
    /\ (layout.done /\ layout.err # "") => calls = <<>> /\ pc = "failed"
    /\ \A i, j \in 1 .. Len(calls) : i # j => StageIdx(calls[i]) # StageIdx(calls[j])
    /\ pc = "done" => err = "" /\ \A i \in 1 .. Len(calls) : calls[i].ok

C5_Witness ==
  /\ IsModelRun /\ pc = "failed" /\ SkipSet(args) = {}
  /\ Len(calls) = 3 /\ ~calls[3].ok /\ StageIdx(calls[3]) = 3

\* The entry called name inside the directory a path denotes.
Inside(n, name) == [abs |-> n.abs, comps |-> Append(n.comps, <<name>>)]

BaseEntry == Norm(args["base_dir"])

TenNames ==
  {"nb_hidden", "learning_rate", "dropout", "nb_epoch", "decay", "batch_size",
   "loss_function", "activation", "momentum", "nesterov"}

\* C7: the bundle handed to Fit has exactly the ten hyperparameter names,
\* each with the configuration's value; when one of the names is absent from
\* the configuration, Fit is not invoked and a run that gets to extraction
\* ends in AttributeError.
C7_ExtractExact ==
  /\ \A i \in 1 .. Len(calls) :
       calls[i].fn = "fit_model" =>
         /\ DOMAIN calls[i].argv[2] = TenNames
         /\ \A k \in TenNames : k \in DOMAIN args /\ calls[i].argv[2][k] = args[k]
  /\ ~(TenNames \subseteq DOMAIN args) =>
       /\ \A i \in 1 .. Len(calls) : calls[i].fn # "fit_model"
       /\ (IsModelRun /\ ~args["skip_fit"]) => pc \notin {"eval_train", "eval_test", "done"}
       /\ (IsModelRun /\ ~args["skip_fit"] /\ pc = "failed" /\ layout.err = ""
             /\ \A i \in 1 .. Len(calls) : calls[i].ok)
            => err = "AttributeError"
       /\ (args["func"] = "fit_model_wrapper" /\ pc # "main")
            => pc = "failed" /\ err = "AttributeError"

C7_Witness ==
  /\ IsModelRun /\ ~(TenNames \subseteq DOMAIN args)
  /\ SkipSet(args) = {}
  /\ pc = "failed" /\ err = "AttributeError"
  /\ Stages(calls) = <<1, 2>> /\ calls[2].ok

\* C8: the fit subcommand invokes Fit exactly once with its model name, the
\* extracted bundle, model_dir and data_dir, and the eval subcommand invokes
\* Eval on the test split exactly once with its four options; neither ends
\* in an AttributeError.
C8_SingleStageCommands ==
  /\ (args["func"] = "fit_model_wrapper" /\ DOMAIN args = FitCommand /\ pc # "main") =>
       /\ err # "AttributeError"
       /\ Len(calls) = 1 /\ calls[1].fn = "fit_model"
       /\ calls[1].argv = <<args["model"], [k \in TenNames |-> args[k]],
                            args["model_dir"], args["data_dir"]>>
  /\ (args["func"] = "eval_trained_model_wrapper" /\ DOMAIN args = EvalCommand
        /\ pc # "main") =>
       /\ err # "AttributeError"
       /\ Len(calls) = 1 /\ StageIdx(calls[1]) = 5
       /\ calls[1].argv[2] = args["saved_model"]
       /\ calls[1].argv[3] = args["saved_data"]
       /\ calls[1].argv[4] = args["csv_out"]
       /\ calls[1].argv[5] = args["stats_out"]

\* C9: ensure_exists as called by create_model removes nothing, never fails
\* on account of a directory that already exists, and called again after a
\* call that succeeded it is given the same paths, raises nothing and leaves
\* the file system as it was.
C9_LayoutIdempotent ==
  /\ layout.done =>
       /\ layout.pre.dirs \subseteq layout.post.dirs
       /\ layout.pre.files = layout.post.files
       /\ layout.err = "FileExistsError" => Norm(layout.errPath) \notin layout.pre.dirs
  /\ (layout.done /\ prevLayout.done /\ prevLayout.err = ""
        /\ layout.pre = prevLayout.post) =>
       /\ layout.dirs = prevLayout.dirs
       /\ layout.err = ""
       /\ layout.post = layout.pre

C9_Witness ==
  /\ run = 2 /\ layout.done /\ prevLayout.done /\ prevLayout.err = ""
  /\ prevLayout.pre.dirs # prevLayout.post.dirs
  /\ layout.pre = prevLayout.post

SixEntries ==
  {BaseEntry, Inside(BaseEntry, "features"), Inside(BaseEntry, "data"),
   Inside(BaseEntry, "model"), Inside(Inside(BaseEntry, "data"), "train"),
   Inside(Inside(BaseEntry, "data"), "test")}

IsDir(n) == n.comps = <<>> \/ n \in fs.dirs

\* C10 as stated: once the layout step is over, base, base/features,
\* base/data, base/model, base/data/train and base/data/test are directories
\* on disk.
C10_WholeTreeExists ==
  (IsModelRun /\ AfterLayout) => \A n \in SixEntries : IsDir(n)

\* C10 amended: once the layout step is over, base is a directory and
\* base/features, base/data and base/model exist on disk, whatever the skip
\* flags; the step creates no entry other than these four and their parents.
C10_LayoutExists ==
  (IsModelRun /\ AfterLayout) =>
    /\ IsDir(BaseEntry)
    /\ \A name \in {"features", "data", "model"} :
         Inside(BaseEntry, name) \in fs.dirs \cup fs.files
    /\ fs = layout.post
    /\ \A n \in layout.post.dirs \ layout.pre.dirs :
         \E m \in {BaseEntry, Inside(BaseEntry, "features"), Inside(BaseEntry, "data"),
                   Inside(BaseEntry, "model")} : n \in PrefixesOf(m)

C10_Witness ==
  /\ IsModelRun /\ pc = "featurize" /\ calls = <<>>
  /\ args["skip_train_test_split"]
  /\ args["base_dir"] = <<"a", "/", "a">>
  /\ layout.pre = EmptyFs
  /\ Inside(BaseEntry, "model") \in fs.dirs

====
